---- MODULE Spec2Model ----
(***************************************************************************)
(* AsyncSharedObject (src/sharedpotato/sharedobj.py) and the lock guard    *)
(* acquire_lock_with_timeout (src/sharedpotato/exclusive.py), modelled at  *)
(* the granularity of asyncio: one step runs a task from one suspension    *)
(* point (an await that really suspends) to the next.                      *)
(*                                                                         *)
(* The call sites in sharedobj.py pass the guard's arguments by position   *)
(* (self, MN, self._cond, [self._updated,] timeout); the model binds them  *)
(* by role: exlock = self._cond, the event of set/clear = self._updated    *)
(* (set when the body completed), timeout = the caller's timeout.          *)
(*                                                                         *)
(* asyncio.Lock has no owner: it is the boolean locked.  holder is a       *)
(* history variable naming the task whose acquire() made it true.  The     *)
(* tasks waiting in acquire() are those with pc = "lockwait" or "relock";  *)
(* any of them may get the free lock, which covers every order in which    *)
(* the event loop can have started them.                                   *)
(*                                                                         *)
(* Every call is run by a task of its own, MaxCalls calls being made in    *)
(* all.  The tasks with a call in progress are numbered in the order of    *)
(* their calls; when a call ends, the later tasks move up by one.          *)
(* asyncio.Lock.acquire() does                                             *)
(* not suspend when the lock is free, so a call made while the lock is     *)
(* free runs to its first suspension in the step that makes it.  When a    *)
(* step ends a call, the record last (history) holds what its caller sees  *)
(* of it; any other step resets it.  Nothing reads the argument of set     *)
(* before its body runs, so the body draws it.                             *)
(*                                                                         *)
(* Other parts of the program are run on their own, each in one record:    *)
(* queue is a CleanupTasks object (QueueSpec: calls of cleanup and         *)
(* wait_all with their tasks, MaxEntries asynchronous results in all,      *)
(* built with any interval up to MaxInterval), and guard is one lock with  *)
(* two events used by MaxGuards callers of acquire_lock_with_timeout       *)
(* (GuardSpec).  sset is an AsyncSharedSet (sharedset.py): the set in its  *)
(* cell and MaxIters iterations over it (SetSpec).  Spec                   *)
(* leaves the three records as constructed.  LateSpec is Spec with one     *)
(* more initial state, which Spec reaches with three calls (StolenLock),   *)
(* and MaxCalls calls counted from there.                                  *)
(***************************************************************************)
EXTENDS Integers, Sequences, FiniteSets, Bags, TLC

\* ---- bounds -------------------------------------------------------------
MaxVal == 1
MaxCalls == 3
MaxHandlerOps == 1
MaxEntries == 2
MaxInterval == 2
MaxGuards == 2
MaxElems == 2
MaxIters == 2

Tasks == 1..MaxCalls
Vals == 1..MaxVal

\* ---- sentinels and value classes ----------------------------------------
INVALID_VALUE == -1
NONE == 0

SetArgs == Vals \cup {NONE}
RawValues == Vals \cup {NONE, INVALID_VALUE}

is_valid_value_none_too(value) == value # INVALID_VALUE
is_valid_value(value) == value # NONE /\ value # INVALID_VALUE

is_optional_value_always(value) == TRUE
is_optional_value(value) == value # INVALID_VALUE

select_initial_value(o, d) ==
    IF o # INVALID_VALUE THEN o
    ELSE IF d # INVALID_VALUE THEN d
    ELSE INVALID_VALUE

set_without_lock(o, v) == [obj |-> v, old |-> o]

clear_without_lock_empties(o, d) == [obj |-> INVALID_VALUE, old |-> o]
clear_without_lock(o, d) == [obj |-> d, old |-> o]

VARIABLES
    obj,            \* self._obj
    default,        \* self._default
    closed,         \* self._closed
    locked,         \* self._lock._locked
    holder,         \* history: the task whose acquire() holds the lock ({} or {t})
    updated,        \* self._updated (asyncio.Event)
    pc,             \* per task: where it is suspended
    op,             \* per suspended task: the operation it runs
    afterClose,     \* per suspended task, history: issued after a successful close()
    track,          \* per suspended task, history of a get issued on an empty open cell
    last,           \* history: the call that ended in the latest step, if one did
    cleaned,        \* history: bag of the values passed to CleanupTasks.cleanup
    displaced,      \* history: bag of the valid values replaced in the slot
    ended,          \* history: number of calls that have ended
    closeOk,        \* history: number of close() calls that made the transition
    handlerCalls,   \* history: number of invocations of the close handler
    queue,          \* a CleanupTasks object: its fields, the tasks and coroutines
                    \* it has made, the calls of it in progress
    guard,          \* acquire_lock_with_timeout on a lock and two events of its
                    \* caller's: the lock, the events, the users of the guard
    sset            \* an AsyncSharedSet: the set in its cell, the iterations
                    \* over it in progress

cellvars == <<obj, default, closed, locked, holder, updated, pc, op, afterClose,
              track, last, cleaned, displaced, ended, closeOk, handlerCalls>>

vars == <<obj, default, closed, locked, holder, updated, pc, op, afterClose,
          track, last, cleaned, displaced, ended, closeOk, handlerCalls,
          queue, guard, sset>>

Ops == {"set", "clear", "get", "peek", "close", "do", "async"}

\* History of a get issued on an empty open cell, of what happened since: set
\* (a set(v) completed), raw (a handler's accessor set a value), quiet (nothing
\* at all happened), sole (v when one set(v) is all that happened); and of any
\* get: closedOn (it was suspended on the condition when a close() made the
\* transition).
NoTrack ==
    [on |-> FALSE, set |-> FALSE, raw |-> FALSE, quiet |-> TRUE, sole |-> INVALID_VALUE,
     closedOn |-> FALSE]

NoCall ==
    [op |-> "none", result |-> "none", raised |-> "none", retval |-> INVALID_VALUE,
     entered |-> FALSE, afterClose |-> FALSE, track |-> NoTrack]

\* ---- the Cleanup Queue: CleanupTasks ---------------------------------------
\* CleanupTasks.__init__(cleanup_interval = 100)
DEFAULT_CLEANUP_INTERVAL == 100

\* The asynchronous cleanup operations a CleanupTasks object is given.  Of
\* entry i, coro[i] is the coroutine the handler returned and task[i] the
\* asyncio.Task made of it, each "none" (not there), "running", "done",
\* "failed" (ended by an exception) or "cancelled".
Entries == 1..MaxEntries

\* History: what the latest step did, if it was a step of cleanup or of
\* wait_all.
NoSubmit ==
    [op |-> "none", phase |-> "none", kind |-> "none", detached |-> FALSE,
     entry |-> 0, timedout |-> FALSE, resumes |-> FALSE, path |-> "none",
     failed |-> FALSE, unfinished |-> {}, result |-> "none"]

CleanupTasks(cleanup_interval) ==
    [pending |-> {},                        \* self.__pending_cleanup_tasks
     runs_in_task |-> FALSE,                \* self.__cleanup_task_runs_in_task
     cleanup_interval |-> cleanup_interval, \* self.__cleanup_interval
     clear_count |-> 0,                     \* self.__clear_count
     task |-> [i \in Entries |-> "none"],
     coro |-> [i \in Entries |-> "none"],
     inline |-> 0,         \* the entry a call of cleanup awaits, 0: none does
     gathered |-> {},      \* the entries a call of wait_all waits for
     in_wait_all |-> FALSE,
     last |-> NoSubmit]

\* ---- the guard's users ---------------------------------------------------
GuardUsers == 1..MaxGuards

NoExit ==
    [user |-> 0, outcome |-> "none", given |-> [set |-> FALSE, clear |-> FALSE],
     was |-> [completed |-> FALSE, waiting |-> FALSE]]

\* A lock and two events (completed: passed as after_set, waiting: passed as
\* after_clear), and no user inside the guard.
GuardOn(completed, waiting) ==
    [locked |-> FALSE, completed |-> completed, waiting |-> waiting,
     pc |-> [u \in GuardUsers |-> "out"],
     given |-> [u \in GuardUsers |-> [set |-> FALSE, clear |-> FALSE]],
     last |-> NoExit]

\* ---- AsyncSharedSet ----------------------------------------------------------
Elements == 1..MaxElems

Iterators == 1..MaxIters

\* set(acc.get()): a set of its own, with the elements the cell's set has now.
\* live tells a reference to the cell's set from a copy of it.
copy_without_lock_alias(items) == [live |-> TRUE, items |-> items]
copy_without_lock(items) == [live |-> FALSE, items |-> items]

\* An iteration: items = await self.copy(); for item in items: yield item.
\* History: start (the cell's set when the copy was taken), disturbed (the
\* cell's set was changed during the iteration).
NoIter ==
    [pc |-> "idle", items |-> copy_without_lock({}), start |-> {}, yielded |-> {},
     disturbed |-> FALSE]

NoIteration ==
    [op |-> "none", start |-> {}, yielded |-> {}, disturbed |-> FALSE, failed |-> FALSE]

\* AsyncSharedSet(): the cell holds set().
AsyncSharedSet ==
    [items |-> {}, it |-> [i \in Iterators |-> NoIter], last |-> NoIteration]

\* AsyncSharedObject(obj, default)
AsyncSharedObject(o, d) ==
    /\ default = d
    /\ obj = select_initial_value(o, d)
    /\ closed = FALSE
    /\ locked = FALSE
    /\ holder = {}
    /\ updated = FALSE
    /\ pc = [t \in Tasks |-> "idle"]
    /\ op = [t \in Tasks |-> "none"]
    /\ afterClose = [t \in Tasks |-> FALSE]
    /\ track = [t \in Tasks |-> NoTrack]
    /\ last = NoCall
    /\ cleaned = EmptyBag
    /\ displaced = EmptyBag
    /\ ended = 0
    /\ closeOk = 0
    /\ handlerCalls = 0

\* AsyncSharedObject(obj, default): both arguments default to INVALID_VALUE.
\* Its CleanupTasks() is as constructed, and so is a guard's lock with its
\* events.
Init ==
    /\ queue = CleanupTasks(DEFAULT_CLEANUP_INTERVAL)
    /\ guard = GuardOn(FALSE, FALSE)
    /\ sset = AsyncSharedSet
    /\ \E d \in {INVALID_VALUE, 1} : \E o \in {INVALID_VALUE, 1} : AsyncSharedObject(o, d)

\* ---- the lock guard: acquire_lock_with_timeout ---------------------------
IsTimeoutError(e) == e \in {"TimeoutError", "LockTimeout", "HandlerTimeout"}

\* except asyncio.TimeoutError: raise LockTimeout.  The clause encloses the
\* yield, so it also sees what the body raises; LockTimeout and HandlerTimeout
\* are subclasses of asyncio.TimeoutError.
GuardExcept_passthrough(e) == e
GuardExcept(e) == IF IsTimeoutError(e) THEN "LockTimeout" ELSE e

\* finally: if exlock.locked(): exlock.release().  lk is the lock as the exiting
\* task finds it; done is the guard's flag (it decides the events only).
Free == [locked |-> FALSE, holder |-> {}]

Held(t) == [locked |-> TRUE, holder |-> {t}]

Lock == [locked |-> locked, holder |-> holder]

GuardFinally_keeps(lk, done) == lk
GuardFinally_only_when_done(lk, done) == IF lk.locked /\ done THEN Free ELSE lk
GuardFinally(lk, done) == IF lk.locked THEN Free ELSE lk

\* if done: after_set.set().  set and clear pass self._updated; the others
\* pass no event.
GuardEvent_whenever(ev, done, given) == IF given THEN TRUE ELSE ev
GuardEvent(ev, done, given) == IF done /\ given THEN TRUE ELSE ev

\* if done: after_clear.clear()
GuardEventClear(ev, done, given) == IF done /\ given THEN FALSE ELSE ev

\* self._cond.notify_all(): every task suspended in cond.wait() is woken and
\* has to take the lock again.
notify_one(p) ==
    [u \in Tasks |-> IF p[u] = "condwait" /\ (\A w \in Tasks : w < u => p[w] # "condwait")
                     THEN "relock" ELSE p[u]]
notify_all(p) == [u \in Tasks |-> IF p[u] = "condwait" THEN "relock" ELSE p[u]]

\* ---- calls ---------------------------------------------------------------
\* The tasks with a call in progress are tasks 1..n, in the order in which
\* they made their calls; the first idle task makes the next call.
FirstIdle(t) ==
    /\ pc[t] = "idle"
    /\ \A u \in Tasks : u < t => pc[u] # "idle"
    /\ ended + (t - 1) < MaxCalls

Tracking == [NoTrack EXCEPT !.on = TRUE]

NewCall(o) ==
    [op |-> o, afterClose |-> closeOk > 0,
     track |-> IF o = "get" /\ obj = INVALID_VALUE /\ ~closed THEN Tracking ELSE NoTrack]

Pending(t) == [op |-> op[t], afterClose |-> afterClose[t], track |-> track[t]]

\* The calls of operation o with which task t can enter the guarded body now:
\* the one it waits with for the lock, or a new one.  A new close() gets here
\* only past its wait for self._updated.
Entering(t, o) ==
    IF locked THEN {}
    ELSE IF pc[t] = "lockwait" THEN (IF op[t] = o THEN {Pending(t)} ELSE {})
    ELSE IF FirstIdle(t) /\ (o = "close" => updated)
    THEN {NewCall(o)}
    ELSE {}

\* Task t stays suspended at position at with its call cr; p, tr and lk are
\* the tasks' positions, the gets' histories and the lock as the step leaves
\* them.
Suspend(t, cr, at, p, tr, lk) ==
    /\ pc' = [p EXCEPT ![t] = at]
    /\ op' = [op EXCEPT ![t] = cr.op]
    /\ afterClose' = [afterClose EXCEPT ![t] = cr.afterClose]
    /\ track' = [tr EXCEPT ![t] = cr.track]
    /\ locked' = lk.locked
    /\ holder' = lk.holder
    /\ ended' = ended
    /\ last' = NoCall
    /\ UNCHANGED <<queue, guard, sset>>

\* Task t leaves the tasks with a call in progress: the later ones move up.
Shift(f, t, blank) ==
    [u \in Tasks |-> IF u < t THEN f[u] ELSE IF u + 1 \in Tasks THEN f[u + 1] ELSE blank]

\* The holder of the lock after task t has left; 0 stands for a task whose
\* call has ended.
Moved(h, t) == {IF u = t THEN 0 ELSE IF u > t THEN u - 1 ELSE u : u \in h}

\* The call cr of task t ends.
Return(t, cr, exc, res, rv, entered, p, tr, lk) ==
    /\ pc' = Shift(p, t, "idle")
    /\ op' = Shift(op, t, "none")
    /\ afterClose' = Shift(afterClose, t, FALSE)
    /\ track' = Shift(tr, t, NoTrack)
    /\ locked' = lk.locked
    /\ holder' = Moved(lk.holder, t)
    /\ ended' = ended + 1
    /\ last' = [op |-> cr.op, result |-> res, raised |-> exc, retval |-> rv,
                entered |-> entered, afterClose |-> cr.afterClose,
                track |-> cr.track]
    /\ UNCHANGED <<queue, guard, sset>>

\* The call cr of task t leaves its guard: exc is what was raised inside
\* ("none": the body completed), rv what it returns, lk the lock as it is
\* then.
Finish(t, cr, exc, rv, lk, entered, p, tr) ==
    Return(t, cr, exc, IF exc = "none" THEN "ok" ELSE GuardExcept(exc), rv, entered,
           p, tr, GuardFinally(lk, exc = "none"))

\* except Exception as e: logger.exception(...)   (CleanupTasks.cleanup): what
\* the caller of set / clear gets when the cleanup handler raises e.
CleanupExcept_propagates(e) == e
CleanupExcept(e) == "ok"

\* result = self._close_handler(final_value) ... await result   (close): no
\* try encloses them, so what the close handler raises leaves close.
CloseExcept_swallows(e) == "ok"
CloseExcept(e) == e

\* The body of call cr of task t has completed and the guard is left; the
\* call goes on after the with block: it returns (then = "return"), the
\* handler called there raises (then = "cleanup_raises", "close_raises"), or
\* the call is suspended at an await there (then = "cleanup", "closehandler").
After(t, cr, then, p, tr) ==
    CASE then = "return" ->
            Return(t, cr, "none", "ok", NONE, TRUE, p, tr, GuardFinally(Held(t), TRUE))
      [] then = "cleanup_raises" ->
            Return(t, cr, "CleanupError", CleanupExcept("CleanupError"), NONE, TRUE,
                   p, tr, GuardFinally(Held(t), TRUE))
      [] then = "close_raises" ->
            Return(t, cr, "HandlerError", CloseExcept("HandlerError"), INVALID_VALUE,
                   TRUE, p, tr, GuardFinally(Held(t), TRUE))
      [] OTHER ->
            Suspend(t, cr, then, p, tr, GuardFinally(Held(t), TRUE))

\* ---- history of the gets issued on an empty open cell --------------------
Bump(tr, kind, v) ==
    CASE kind = "set" ->
            [tr EXCEPT !.set = TRUE, !.quiet = FALSE,
                       !.sole = IF tr.quiet THEN v ELSE INVALID_VALUE]
      [] kind = "raw" ->
            [tr EXCEPT !.raw = TRUE, !.quiet = FALSE, !.sole = INVALID_VALUE]
      [] OTHER ->
            [tr EXCEPT !.quiet = FALSE, !.sole = INVALID_VALUE]

Note(tr, kind, v) ==
    [u \in Tasks |-> IF tr[u].on THEN Bump(tr[u], kind, v) ELSE tr[u]]

\* close() made the transition while the tasks of p with "condwait" were
\* suspended on the condition.
NoteClose(tr, p) ==
    [u \in Tasks |-> IF p[u] = "condwait"
                     THEN [Note(tr, "other", NONE)[u] EXCEPT !.closedOn = TRUE]
                     ELSE Note(tr, "other", NONE)[u]]

\* ---- handlers run under the lock: the accessor _ObjectRawRef ------------
RawOps ==
    {[k |-> "set", v |-> x] : x \in SetArgs}
        \cup {[k |-> kk, v |-> INVALID_VALUE] : kk \in {"clear", "close"}}

Progs(n) == UNION {[1..m -> RawOps] : m \in 0..n}

\* if self.is_valid_value(old_obj): await self._obj_cleanup_tasks.cleanup(old_obj)
Displace_drops(d, old) == d
Displace(d, old) == IF is_valid_value(old) THEN d (+) SetToBag({old}) ELSE d

\* c = [obj, closed, displaced, track]: what a handler can change, and the
\* history of it.  _ObjectRawRef.set / clear drop the old value that
\* _set_without_lock / _clear_without_lock return, and nothing is notified.
RawApply(c, r) ==
    CASE r.k = "set" ->
            [c EXCEPT !.obj = set_without_lock(c.obj, r.v).obj,
                      !.displaced = Displace(@, set_without_lock(c.obj, r.v).old),
                      !.track = Note(@, "raw", r.v)]
      [] r.k = "clear" ->
            [c EXCEPT !.obj = clear_without_lock(c.obj, default).obj,
                      !.displaced = Displace(@, clear_without_lock(c.obj, default).old),
                      !.track = Note(@, "other", r.v)]
      [] r.k = "close" ->
            [c EXCEPT !.closed = TRUE, !.track = Note(@, "other", r.v)]

RECURSIVE RunHandler(_, _)
RunHandler(c, prog) ==
    IF prog = <<>> THEN c
    ELSE RunHandler(RawApply(c, Head(prog)), Tail(prog))

Cell == [obj |-> obj, closed |-> closed, displaced |-> displaced, track |-> track]

\* What a handler that uses the accessor up to n times can make of the cell.
Outcomes(n) == {RunHandler(Cell, prog) : prog \in Progs(n)}

\* What a handler did with the cell.
Handled(c) ==
    /\ obj' = c.obj
    /\ closed' = c.closed
    /\ displaced' = c.displaced

\* ---- operations ----------------------------------------------------------
\* A call made while another task has the lock waits for it.  clear() clears
\* self._updated before it asks for the lock; close() first waits for
\* self._updated.
Call(t, o) ==
    /\ FirstIdle(t)
    /\ IF o = "close" /\ ~updated
       THEN Suspend(t, NewCall(o), "closewait", pc, track, Lock)
       ELSE locked /\ Suspend(t, NewCall(o), "lockwait", pc, track, Lock)
    /\ updated' = IF o = "clear" THEN FALSE ELSE updated
    /\ UNCHANGED <<obj, default, closed, cleaned, displaced, closeOk, handlerCalls>>

CallOp(t) == \E o \in Ops : Call(t, o)

\* close(): await self._updated.wait() returns once the event is set.
CloseProceed(t) ==
    /\ pc[t] = "closewait"
    /\ updated
    /\ Suspend(t, Pending(t), "lockwait", pc, track, Lock)
    /\ UNCHANGED <<obj, default, closed, updated, cleaned, displaced, closeOk,
                   handlerCalls>>

\* The body fails with SharedObjectClosed and has changed nothing.
RaiseClosed(t, cr) ==
    /\ Finish(t, cr, "SharedObjectClosed", INVALID_VALUE, Held(t), TRUE, pc, track)
    /\ updated' = IF cr.op = "clear" THEN FALSE ELSE updated
    /\ UNCHANGED <<obj, default, closed, cleaned, displaced, closeOk, handlerCalls>>

\* CleanupTasks.cleanup(old_obj), called by set and clear after the guard for
\* a valid old value: it returns at once (no handler, a synchronous handler
\* that returns, or an asynchronous one started as a task), the synchronous
\* handler raises, or it awaits the handler's coroutine.
CleanupPhase(old) ==
    IF is_valid_value(old) THEN {"return", "cleanup_raises", "cleanup"} ELSE {"return"}

\* set(v): the body under the lock, then cleanup(old_obj) outside it.
SetBody(t) ==
    \E cr \in Entering(t, "set") :
       IF closed
       THEN RaiseClosed(t, cr)
       ELSE \E v \in SetArgs : \E then \in CleanupPhase(set_without_lock(obj, v).old) :
            /\ obj' = set_without_lock(obj, v).obj
            /\ After(t, cr, then, notify_all(pc), Note(track, "set", v))
            /\ updated' = GuardEvent(updated, TRUE, TRUE)
            /\ cleaned' = Displace(cleaned, set_without_lock(obj, v).old)
            /\ displaced' = Displace(displaced, set_without_lock(obj, v).old)
            /\ UNCHANGED <<default, closed, closeOk, handlerCalls>>

\* clear(): as set, with the default as the new value.
ClearBody(t) ==
    \E cr \in Entering(t, "clear") :
       IF closed
       THEN RaiseClosed(t, cr)
       ELSE \E then \in CleanupPhase(clear_without_lock(obj, default).old) :
            /\ obj' = clear_without_lock(obj, default).obj
            /\ After(t, cr, then, notify_all(pc), Note(track, "other", NONE))
            /\ updated' = GuardEvent(FALSE, TRUE, TRUE)
            /\ cleaned' = Displace(cleaned, clear_without_lock(obj, default).old)
            /\ displaced' = Displace(displaced, clear_without_lock(obj, default).old)
            /\ UNCHANGED <<default, closed, closeOk, handlerCalls>>

\* The awaited cleanup handler ends, by returning or by raising an Exception,
\* which cleanup logs: set / clear returns.
CleanupFinish(t) ==
    /\ pc[t] = "cleanup"
    /\ \E e \in {"none", "CleanupError"} :
          Return(t, Pending(t), e, IF e = "none" THEN "ok" ELSE CleanupExcept(e), NONE,
                 TRUE, pc, track, Lock)
    /\ UNCHANGED <<obj, default, closed, updated, cleaned, displaced, closeOk,
                   handlerCalls>>

\* get(): the loop of get, entered with the lock held (first entry or after a
\* wake): return the value, fail on a closed cell, or wait on the condition,
\* which releases the lock.
GetLoop(t, cr) ==
    IF is_optional_value(obj)
    THEN /\ Finish(t, cr, "none", obj, Held(t), TRUE, pc, track)
         /\ UNCHANGED <<obj, default, closed, updated, cleaned, displaced, closeOk,
                        handlerCalls>>
    ELSE IF closed
    THEN RaiseClosed(t, cr)
    ELSE /\ Suspend(t, cr, "condwait", pc, track, Free)
         /\ UNCHANGED <<obj, default, closed, updated, cleaned, displaced, closeOk,
                        handlerCalls>>

GetBody(t) == \E cr \in Entering(t, "get") : GetLoop(t, cr)

\* cond.wait() takes the lock again after notify_all, without a timeout.
GetWake(t) ==
    /\ pc[t] = "relock" /\ ~locked
    /\ GetLoop(t, Pending(t))

\* The reads: peek() returns self._obj as it is, closed() returns
\* self._closed, valid() returns is_valid_value(await self.peek()).  Up to
\* its body a read is a call of "peek"; the body tells which one it is.
Reads == {"peek", "closed", "valid"}

ReadValue_blind(r) == IF r = "peek" THEN INVALID_VALUE ELSE FALSE

ReadValue(r) ==
    CASE r = "peek" -> obj
      [] r = "closed" -> closed
      [] r = "valid" -> is_valid_value(obj)

PeekBody(t) ==
    \E cr \in Entering(t, "peek") : \E r \in Reads :
        /\ Finish(t, [cr EXCEPT !.op = r], "none", ReadValue(r), Held(t), TRUE, pc, track)
        /\ UNCHANGED <<obj, default, closed, updated, cleaned, displaced, closeOk,
                       handlerCalls>>

\* if self._closed: raise SharedObjectClosed()   (close)
close_rejects_never(c) == FALSE
close_rejects(c) == c

\* self._closed = True
close_transition_skipped(c) == c
close_transition(c) == TRUE

\* self._close_handler: not there (or false), a function that returns, a
\* function that raises, or a function that returns a coroutine, which close
\* awaits.
CloseHandlers == {"none", "sync", "sync_raises", "async"}

\* close(): the transition under the lock, then the close handler outside it,
\* when one is there: set_close_handler(handler) may have stored one, or a
\* false value, at any time before.  close has no return statement: it
\* returns None.
CloseBody(t) ==
    \E cr \in Entering(t, "close") :
       IF close_rejects(closed)
       THEN RaiseClosed(t, cr)
       ELSE \E close_handler \in CloseHandlers :
            /\ closed' = close_transition(closed)
            /\ obj' = INVALID_VALUE
            /\ After(t, cr,
                     CASE close_handler = "async" -> "closehandler"
                       [] close_handler = "sync_raises" -> "close_raises"
                       [] OTHER -> "return",
                     notify_all(pc), NoteClose(track, pc))
            /\ closeOk' = closeOk + 1
            /\ handlerCalls' =
                  IF close_handler = "none" THEN handlerCalls ELSE handlerCalls + 1
            /\ UNCHANGED <<default, updated, cleaned, displaced>>

\* The awaited close handler ends, by returning or by raising: so does close.
CloseHandlerFinish(t) ==
    /\ pc[t] = "closehandler"
    /\ \E e \in {"none", "HandlerError"} :
          Return(t, Pending(t), e, IF e = "none" THEN "ok" ELSE CloseExcept(e),
                 IF e = "none" THEN NONE ELSE INVALID_VALUE, TRUE, pc, track, Lock)
    /\ UNCHANGED <<obj, default, closed, updated, cleaned, displaced, closeOk,
                   handlerCalls>>

\* if self._closed: raise SharedObjectClosed()   (_lock_and_do, _lock_and_async)
handler_rejects_never(c) == FALSE
handler_rejects(c) == c

\* _lock_and_do(): a synchronous handler runs under the lock with the
\* accessor; prog is what it does with it.
DoBody(t) ==
    \E cr \in Entering(t, "do") :
       IF handler_rejects(closed)
       THEN RaiseClosed(t, cr)
       ELSE \E c \in Outcomes(MaxHandlerOps) :
            /\ Handled(c)
            /\ Finish(t, cr, "none", NONE, Held(t), TRUE, pc, c.track)
            /\ UNCHANGED <<default, updated, cleaned, closeOk, handlerCalls>>

\* _lock_and_async(): the handler returns a coroutine; it runs up to its first
\* suspension and the caller awaits it, bounded by handler_timeout, with the
\* lock held.
AsyncBody(t) ==
    \E cr \in Entering(t, "async") :
       IF handler_rejects(closed)
       THEN RaiseClosed(t, cr)
       ELSE \E c \in Outcomes(1) :
            /\ Handled(c)
            /\ Suspend(t, cr, "handler", pc, c.track, Held(t))
            /\ UNCHANGED <<default, updated, cleaned, closeOk, handlerCalls>>

\* The awaited handler runs to its end and the guard is left normally.
HandlerFinish(t) ==
    /\ pc[t] = "handler"
    /\ \E c \in Outcomes(1) :
        /\ Handled(c)
        /\ Finish(t, Pending(t), "none", NONE, Lock, TRUE, pc, c.track)
    /\ UNCHANGED <<default, updated, cleaned, closeOk, handlerCalls>>

\* Leaving the guard with an exception raised at a suspension point.
Abort(t, exc, entered) ==
    /\ Finish(t, Pending(t), exc, INVALID_VALUE, Lock, entered, pc, track)
    /\ UNCHANGED <<obj, default, closed, updated, cleaned, displaced, closeOk,
                   handlerCalls>>

\* asyncio.wait_for(result, handler_timeout) expires: raise HandlerTimeout.
HandlerTimeout(t) ==
    /\ pc[t] = "handler"
    /\ Abort(t, "HandlerTimeout", TRUE)

\* The awaited handler raises an exception of its own.
HandlerRaise(t) ==
    /\ pc[t] = "handler"
    /\ Abort(t, "HandlerError", TRUE)

\* asyncio.wait_for(exlock.acquire(), timeout) raises asyncio.TimeoutError
\* inside the guard's try: the timeout expires while another task has the
\* lock, or the call is made with a timeout <= 0, which wait_for answers by
\* cancelling the acquire() it has just scheduled, whether the lock is free or
\* not.
AcquireTimeout(t) ==
    \/ /\ pc[t] = "lockwait"
       /\ locked
       /\ Abort(t, "TimeoutError", FALSE)
    \/ \E o \in Ops :
       /\ FirstIdle(t)
       /\ ~locked
       /\ o = "close" => updated
       /\ Finish(t, NewCall(o), "TimeoutError", INVALID_VALUE, Lock, FALSE, pc, track)
       /\ updated' = IF o = "clear" THEN FALSE ELSE updated
       /\ UNCHANGED <<obj, default, closed, cleaned, displaced, closeOk,
                      handlerCalls>>

\* The task is cancelled while suspended.  Before the guard (close waiting for
\* the event) nothing is held; inside cond.wait() the lock is taken again
\* before CancelledError is raised; after the guard (awaiting the cleanup or
\* the close handler) CancelledError goes into the awaited handler and out to
\* the caller.
Cancel(t) ==
    \/ /\ pc[t] = "lockwait"
       /\ Abort(t, "CancelledError", FALSE)
    \/ /\ pc[t] = "handler"
       /\ Abort(t, "CancelledError", TRUE)
    \/ /\ pc[t] = "closewait"
       /\ Return(t, Pending(t), "CancelledError", "CancelledError", INVALID_VALUE,
                 FALSE, pc, track, Lock)
       /\ UNCHANGED <<obj, default, closed, updated, cleaned, displaced, closeOk,
                      handlerCalls>>
    \/ /\ pc[t] \in {"cleanup", "closehandler"}
       /\ Return(t, Pending(t), "CancelledError", "CancelledError", INVALID_VALUE,
                 TRUE, pc, track, Lock)
       /\ UNCHANGED <<obj, default, closed, updated, cleaned, displaced, closeOk,
                      handlerCalls>>
    \/ /\ pc[t] \in {"condwait", "relock"}
       /\ Suspend(t, Pending(t), "relock_cancelled", pc, track, Lock)
       /\ UNCHANGED <<obj, default, closed, updated, cleaned, displaced, closeOk,
                      handlerCalls>>

\* The cancelled waiter has the lock again; CancelledError leaves the guard.
CancelledWake(t) ==
    /\ pc[t] = "relock_cancelled" /\ ~locked
    /\ Finish(t, Pending(t), "CancelledError", INVALID_VALUE, Held(t), TRUE, pc, track)
    /\ UNCHANGED <<obj, default, closed, updated, cleaned, displaced, closeOk,
                   handlerCalls>>

Next ==
    \/ \E t \in Tasks : CallOp(t)
    \/ \E t \in Tasks : CloseProceed(t)
    \/ \E t \in Tasks : SetBody(t)
    \/ \E t \in Tasks : ClearBody(t)
    \/ \E t \in Tasks : GetBody(t)
    \/ \E t \in Tasks : GetWake(t)
    \/ \E t \in Tasks : PeekBody(t)
    \/ \E t \in Tasks : CleanupFinish(t)
    \/ \E t \in Tasks : CloseBody(t)
    \/ \E t \in Tasks : CloseHandlerFinish(t)
    \/ \E t \in Tasks : DoBody(t)
    \/ \E t \in Tasks : AsyncBody(t)
    \/ \E t \in Tasks : HandlerFinish(t)
    \/ \E t \in Tasks : HandlerTimeout(t)
    \/ \E t \in Tasks : HandlerRaise(t)
    \/ \E t \in Tasks : AcquireTimeout(t)
    \/ \E t \in Tasks : Cancel(t)
    \/ \E t \in Tasks : CancelledWake(t)

Spec == Init /\ [][Next]_vars

\* The event loop runs every task that is ready: a suspended call whose await
\* can return does resume.  New calls, timeouts, cancellations and the end of
\* an awaited handler are the environment's and are not forced.
Resume(t) ==
    /\ pc[t] \in {"closewait", "lockwait", "relock", "relock_cancelled"}
    /\ \/ CloseProceed(t)
       \/ SetBody(t)
       \/ ClearBody(t)
       \/ GetBody(t)
       \/ GetWake(t)
       \/ PeekBody(t)
       \/ CloseBody(t)
       \/ DoBody(t)
       \/ AsyncBody(t)
       \/ CancelledWake(t)

FairSpec == Spec /\ \A t \in Tasks : WF_vars(Resume(t))

\* The cell as three calls leave it: set(None) has returned; _lock_and_async
\* runs a handler that has called the accessor's clear() and is suspended with
\* the lock held; a call with a timeout that expired has ended with
\* LockTimeout, and the finally of its guard has released the handler's lock.
StolenLock ==
    /\ default = INVALID_VALUE
    /\ obj = INVALID_VALUE
    /\ closed = FALSE
    /\ locked = FALSE
    /\ holder = {}
    /\ updated = TRUE
    /\ pc = [t \in Tasks |-> IF t = 1 THEN "handler" ELSE "idle"]
    /\ op = [t \in Tasks |-> IF t = 1 THEN "async" ELSE "none"]
    /\ afterClose = [t \in Tasks |-> FALSE]
    /\ track = [t \in Tasks |-> NoTrack]
    /\ last = [NoCall EXCEPT !.op = "peek", !.result = "LockTimeout",
                             !.raised = "TimeoutError"]
    /\ cleaned = EmptyBag
    /\ displaced = EmptyBag
    /\ closeOk = 0
    /\ handlerCalls = 0

\* Spec reaches StolenLock with two calls ended.
StolenLockReached == StolenLock /\ ended = 2

\* The cell as constructed, or as those three calls leave it, with MaxCalls
\* calls counted from there: the handler's call and those made after it.
LateInit ==
    \/ Init
    \/ /\ queue = CleanupTasks(DEFAULT_CLEANUP_INTERVAL)
       /\ guard = GuardOn(FALSE, FALSE)
       /\ sset = AsyncSharedSet
       /\ StolenLock
       /\ ended = 0

LateSpec == LateInit /\ [][Next]_vars

\* ---- CleanupTasks: cleanup and wait_all -----------------------------------
\* A CleanupTasks object used on its own: calls of cleanup(obj, timeout,
\* resumes) with a handler of any kind, one of them at a time awaiting its
\* handler's coroutine, the setters, the tasks it has made running to their
\* ends, and one call of wait_all at a time.

\* self.__pending_cleanup_tasks = {t for t in ... if not t.done()}
collect_done_tasks_all(q) == {}
collect_done_tasks(q) == {i \in q.pending : q.task[i] = "running"}

\* self.__clear_count += 1; at the interval: collect, and start again at 0.
Counted(q) ==
    IF q.clear_count + 1 >= q.cleanup_interval
    THEN [q EXCEPT !.pending = collect_done_tasks(q), !.clear_count = 0]
    ELSE [q EXCEPT !.clear_count = @ + 1]

\* self.handler: None, a function that returns, a function that raises, a
\* function that returns a coroutine.
Handlers == {"none", "sync", "sync_raises", "async"}

\* if self.runs_in_task:
Detaches_never(flag) == FALSE
Detaches(flag) == flag

\* if resumes:
Resumes_always(resumes) == TRUE
Resumes(resumes) == resumes

FreeEntries(q) == {i \in Entries : q.coro[i] = "none"}

NewEntry(q) == CHOOSE i \in FreeEntries(q) : \A j \in FreeEntries(q) : i <= j

Submit(kind, n, phase) ==
    [NoSubmit EXCEPT !.op = "cleanup", !.phase = phase, !.kind = kind, !.entry = n,
                     !.detached = queue.runs_in_task,
                     !.result = IF phase = "returned" THEN "ok" ELSE "none"]

QueueStep(q) ==
    /\ queue' = q
    /\ UNCHANGED <<cellvars, guard, sset>>

\* cleanup(obj, timeout, resumes) up to its return or to its await.
Cleanup(kind) ==
    LET q == Counted(queue)
        n == NewEntry(queue)
    IN IF kind # "async"
       THEN QueueStep([q EXCEPT !.last = Submit(kind, 0, "returned")])
       ELSE /\ FreeEntries(queue) # {}
            /\ IF Detaches(queue.runs_in_task)
               THEN QueueStep([q EXCEPT !.coro[n] = "running", !.task[n] = "running",
                                        !.pending = @ \cup {n},
                                        !.last = Submit(kind, n, "returned")])
               ELSE /\ queue.inline = 0
                    /\ QueueStep([q EXCEPT !.coro[n] = "running", !.inline = n,
                                           !.last = Submit(kind, n, "awaiting")])

\* await asyncio.wait_for(result, timeout) returns or raises what the handler
\* raised, which cleanup logs.
InlineFinish ==
    /\ queue.inline # 0
    /\ \E r \in {"done", "failed"} :
          QueueStep([queue EXCEPT
              !.coro[queue.inline] = r, !.inline = 0,
              !.last = [Submit("async", queue.inline, "returned") EXCEPT
                            !.detached = FALSE,
                            !.result = IF r = "failed" THEN CleanupExcept("CleanupError")
                                       ELSE "ok"]])

\* asyncio.wait_for(result, timeout) expires: it cancels the coroutine and
\* raises asyncio.TimeoutError.  `except TimeoutError` names the builtin, which
\* asyncio.TimeoutError is from Python 3.11 on (builtin); before, the clause
\* does not match and `except Exception` logs the timeout.  When it matches and
\* resumes is true, asyncio.create_task(result) makes a task of the coroutine
\* that wait_for has cancelled.
InlineTimeout ==
    /\ queue.inline # 0
    /\ \E resumes \in BOOLEAN : \E builtin \in BOOLEAN :
          LET n == queue.inline
              q == [queue EXCEPT !.coro[n] = "cancelled", !.inline = 0,
                                 !.last = [Submit("async", n, "returned") EXCEPT
                                               !.detached = FALSE,
                                               !.timedout = TRUE, !.resumes = resumes]]
          IN QueueStep(IF Resumes(resumes) /\ builtin
                       THEN [q EXCEPT !.task[n] = "running", !.pending = @ \cup {n}]
                       ELSE q)

\* A task the queue has made runs to its end.  The task made of a cancelled
\* coroutine ends at its first step with RuntimeError (cannot reuse already
\* awaited coroutine).
TaskEnds(i) ==
    /\ queue.task[i] = "running"
    /\ IF queue.coro[i] = "running"
       THEN \E r \in {"done", "failed"} :
               QueueStep([queue EXCEPT !.task[i] = r, !.coro[i] = r, !.last = NoSubmit])
       ELSE QueueStep([queue EXCEPT !.task[i] = "failed", !.last = NoSubmit])

\* runs_in_task = flag
SetRunsInTask ==
    QueueStep([queue EXCEPT !.runs_in_task = ~@, !.last = NoSubmit])

\* cleanup_interval = n and update_cleanup_interval(n): both refuse n < 1; the
\* second one collects and resets the count.
SetInterval ==
    \E n \in 1..MaxInterval : \E update \in BOOLEAN :
        QueueStep(IF update
                  THEN [queue EXCEPT !.pending = collect_done_tasks(queue),
                                     !.clear_count = 0, !.cleanup_interval = n,
                                     !.last = NoSubmit]
                  ELSE [queue EXCEPT !.cleanup_interval = n, !.last = NoSubmit])

\* t.cancel() for the tasks of S that have not ended.
Cancelled(q, S) ==
    [q EXCEPT
        !.task = [i \in Entries |->
                     IF i \in S /\ q.task[i] = "running" THEN "cancelled" ELSE q.task[i]],
        !.coro = [i \in Entries |->
                     IF i \in S /\ q.task[i] = "running" /\ q.coro[i] = "running"
                     THEN "cancelled" ELSE q.coro[i]]]

\* except asyncio.TimeoutError: ...   except Exception as e: logger.exception(...)
WaitAllExcept_propagates(e) == e
WaitAllExcept(e) == "ok"

WaitedAll(path, q, unfinished, raised) ==
    [NoSubmit EXCEPT !.op = "wait_all", !.phase = "returned", !.path = path,
                     !.failed = \E i \in q.gathered : q.task[i] = "failed",
                     !.unfinished = unfinished,
                     !.result = IF raised = "none" THEN "ok" ELSE WaitAllExcept(raised)]

\* wait_all(all_timeout, per_task_timeout) up to its await: it collects, then
\* an Exception raised in the try is logged (pending is left as it is), or
\* there is nothing to wait for, or it waits for the pending tasks.
WaitAll ==
    /\ ~queue.in_wait_all
    /\ LET q == [queue EXCEPT !.pending = collect_done_tasks(queue)]
       IN \/ QueueStep([q EXCEPT !.last = WaitedAll("error", q, {}, "Error")])
          \/ /\ q.pending = {}
             /\ QueueStep([q EXCEPT !.last = WaitedAll("finished", q, {}, "none")])
          \/ /\ q.pending # {}
             /\ QueueStep([q EXCEPT !.gathered = q.pending, !.in_wait_all = TRUE,
                                    !.last = NoSubmit])

\* asyncio.gather(*tasks, return_exceptions=True) has every result:
\* self.__pending_cleanup_tasks.clear().
WaitAllFinish ==
    /\ queue.in_wait_all
    /\ \A i \in queue.gathered : queue.task[i] # "running"
    /\ QueueStep([queue EXCEPT !.pending = {}, !.gathered = {}, !.in_wait_all = FALSE,
                               !.last = WaitedAll("finished", queue, {}, "none")])

\* all_timeout expires: wait_for cancels the gather and with it the tasks it
\* waits for; then collect, cancel what is pending, clear.
WaitAllTimeout ==
    /\ queue.in_wait_all
    /\ \E i \in queue.gathered : queue.task[i] = "running"
    /\ LET unfinished ==
               {i \in queue.gathered \cup queue.pending : queue.task[i] = "running"}
       IN QueueStep([Cancelled(queue, unfinished) EXCEPT
                        !.pending = {}, !.gathered = {}, !.in_wait_all = FALSE,
                        !.last = WaitedAll("timeout", queue, unfinished, "TimeoutError")])

\* asyncio.wait_for(t, timeout=per_task_timeout) for t in tasks: each task has
\* a wait_for of its own, which cancels that task.
PerTaskCancels_all(i, gathered) == gathered
PerTaskCancels(i, gathered) == {i}

\* per_task_timeout expires for one task: its wait_for cancels it.
PerTaskTimeout(i) ==
    /\ queue.in_wait_all
    /\ i \in queue.gathered
    /\ queue.task[i] = "running"
    /\ QueueStep([Cancelled(queue, PerTaskCancels(i, queue.gathered)) EXCEPT
                     !.last = NoSubmit])

QueueNext ==
    \/ \E kind \in Handlers : Cleanup(kind)
    \/ InlineFinish
    \/ InlineTimeout
    \/ \E i \in Entries : TaskEnds(i)
    \/ SetRunsInTask
    \/ SetInterval
    \/ WaitAll
    \/ WaitAllFinish
    \/ WaitAllTimeout
    \/ \E i \in Entries : PerTaskTimeout(i)

\* CleanupTasks(cleanup_interval): the constructor takes any integer.
QueueInit ==
    /\ \E n \in 0..MaxInterval : queue = CleanupTasks(n)
    /\ guard = GuardOn(FALSE, FALSE)
    /\ sset = AsyncSharedSet
    /\ AsyncSharedObject(INVALID_VALUE, INVALID_VALUE)

QueueSpec == QueueInit /\ [][QueueNext]_vars

\* ---- acquire_lock_with_timeout on its own ---------------------------------
\* Users of one lock, each inside `async with acquire_lock_with_timeout(exlock,
\* after_set = completed or None, after_clear = waiting or None, timeout)`.

GuardStep(g) ==
    /\ guard' = g
    /\ UNCHANGED <<cellvars, queue, sset>>

\* The guard's exit: the events by the done flag, the lock by the finally.
GuardExit(u, done, outcome) ==
    GuardStep([guard EXCEPT
        !.completed = GuardEvent(@, done, guard.given[u].set),
        !.waiting = GuardEventClear(@, done, guard.given[u].clear),
        !.locked = GuardFinally([locked |-> guard.locked, holder |-> {}], done).locked,
        !.pc[u] = "out",
        !.given[u] = NoExit.given,
        !.last = [user |-> u, outcome |-> outcome, given |-> guard.given[u],
                  was |-> [completed |-> guard.completed, waiting |-> guard.waiting]]])

\* done = False; try: await asyncio.wait_for(exlock.acquire(), timeout) begins.
GuardEnter(u) ==
    /\ guard.pc[u] = "out"
    /\ \E s \in BOOLEAN : \E c \in BOOLEAN :
          GuardStep([guard EXCEPT !.pc[u] = "acquire",
                                  !.given[u] = [set |-> s, clear |-> c],
                                  !.last = NoExit])

\* exlock.acquire() returns: yield.
GuardAcquire(u) ==
    /\ guard.pc[u] = "acquire"
    /\ ~guard.locked
    /\ GuardStep([guard EXCEPT !.pc[u] = "body", !.locked = TRUE, !.last = NoExit])

\* wait_for expires: except asyncio.TimeoutError raises LockTimeout.
GuardLockTimeout(u) ==
    /\ guard.pc[u] = "acquire"
    /\ GuardExit(u, FALSE, GuardExcept("TimeoutError"))

\* The body ran to its end: done = True.
GuardBodyDone(u) ==
    /\ guard.pc[u] = "body"
    /\ GuardExit(u, TRUE, "done")

\* The body raised.
GuardBodyRaises(u) ==
    /\ guard.pc[u] = "body"
    /\ \E e \in {"Error", "TimeoutError"} : GuardExit(u, FALSE, GuardExcept(e))

GuardNext ==
    \E u \in GuardUsers :
        \/ GuardEnter(u)
        \/ GuardAcquire(u)
        \/ GuardLockTimeout(u)
        \/ GuardBodyDone(u)
        \/ GuardBodyRaises(u)

GuardInit ==
    /\ \E completed \in BOOLEAN : \E waiting \in BOOLEAN :
          guard = GuardOn(completed, waiting)
    /\ queue = CleanupTasks(DEFAULT_CLEANUP_INTERVAL)
    /\ sset = AsyncSharedSet
    /\ AsyncSharedObject(INVALID_VALUE, INVALID_VALUE)

GuardSpec == GuardInit /\ [][GuardNext]_vars

\* ---- AsyncSharedSet on its own ----------------------------------------------
\* Every operation of the set is a _lock_and_do with a synchronous handler:
\* it holds the cell's lock from its first statement to its last with no await
\* in between, so each is one step, and so is each item an iteration yields.

SetStep(s) ==
    /\ sset' = s
    /\ UNCHANGED <<cellvars, queue, guard>>

\* The cell's set becomes items: the iterations in progress that see another
\* set than before are disturbed.
Changed(items) ==
    [sset EXCEPT
        !.items = items,
        !.it = [i \in Iterators |->
                   IF sset.it[i].pc = "iterating" /\ items # sset.items
                   THEN [sset.it[i] EXCEPT !.disturbed = TRUE] ELSE sset.it[i]],
        !.last = NoIteration]

\* add(obj): acc.get().add(obj)
Add(x) == SetStep(Changed(sset.items \cup {x}))

\* discard(obj): acc.get().discard(obj)
Discard(x) == SetStep(Changed(sset.items \ {x}))

\* clear(): acc.get().clear()
Clear == SetStep(Changed({}))

\* The first __anext__ of _aiter: items = await self.copy().
IterStart(i) ==
    /\ sset.it[i].pc = "idle"
    /\ SetStep([sset EXCEPT
           !.it[i] = [pc |-> "iterating", items |-> copy_without_lock(sset.items),
                      start |-> sset.items, yielded |-> {}, disturbed |-> FALSE],
           !.last = NoIteration])

\* What the iteration iterates over: its own set, or the cell's.
View(it) == IF it.items.live THEN sset.items ELSE it.items.items

Iterated(it, failed) ==
    [op |-> "iterated", start |-> it.start, yielded |-> it.yielded,
     disturbed |-> it.disturbed, failed |-> failed]

\* for item in items: yield item.  The items come in any order, each once; a
\* set whose size has changed since the loop began makes the loop raise
\* RuntimeError; when no item is left the iteration ends.
IterNext(i) ==
    LET it == sset.it[i]
    IN /\ it.pc = "iterating"
       /\ IF Cardinality(View(it)) # Cardinality(it.start)
          THEN SetStep([sset EXCEPT !.it[i] = NoIter, !.last = Iterated(it, TRUE)])
          ELSE IF View(it) \ it.yielded = {}
          THEN SetStep([sset EXCEPT !.it[i] = NoIter, !.last = Iterated(it, FALSE)])
          ELSE \E x \in View(it) \ it.yielded :
                  SetStep([sset EXCEPT !.it[i].yielded = @ \cup {x},
                                       !.last = NoIteration])

SetNext ==
    \/ \E x \in Elements : Add(x)
    \/ \E x \in Elements : Discard(x)
    \/ Clear
    \/ \E i \in Iterators : IterStart(i)
    \/ \E i \in Iterators : IterNext(i)

SetInit ==
    /\ sset = AsyncSharedSet
    /\ queue = CleanupTasks(DEFAULT_CLEANUP_INTERVAL)
    /\ guard = GuardOn(FALSE, FALSE)
    /\ AsyncSharedObject(INVALID_VALUE, INVALID_VALUE)

SetSpec == SetInit /\ [][SetNext]_vars

\* ---- claims --------------------------------------------------------------
Interrupted(c) == c.raised \in {"CancelledError", "TimeoutError"}

\* C1: a get, set, clear or peek issued after a close() has succeeded fails
\* with SharedObjectClosed (calls that are cancelled, or that do not get the
\* lock within their timeout, left aside).
C1_FailsAfterClose ==
    (last.afterClose /\ last.op \in {"get", "set", "clear", "peek"} /\ ~Interrupted(last))
        => last.result = "SharedObjectClosed"

\* C2 as stated: of the close() calls exactly one succeeds, every other one
\* fails with SharedObjectClosed, and the close handler runs at most once
\* (so when a close() has ended, not cancelled and having had the lock in
\* time, one close() has succeeded: it has made the transition, whatever its
\* close handler then did).
C2_ExactlyOneCloseSucceeds ==
    /\ handlerCalls <= 1
    /\ (last.op = "close" /\ ~Interrupted(last))
          => /\ last.result \in {"ok", "SharedObjectClosed"} \/ last.raised = "HandlerError"
             /\ closeOk = 1

\* C2 as amended: at most one close() succeeds and the close handler runs at
\* most once, only for a close() that succeeded; a close() issued after a
\* successful one never succeeds, and fails with SharedObjectClosed unless it
\* is cancelled or does not get the lock within its timeout.
C2_AtMostOneCloseSucceeds ==
    /\ closeOk <= 1
    /\ handlerCalls <= closeOk
    /\ (last.op = "close" /\ last.result = "ok") => (closeOk = 1 /\ ~last.afterClose)
    /\ (last.op = "close" /\ last.afterClose /\ ~Interrupted(last))
          => last.result = "SharedObjectClosed"

C2_Witness ==
    /\ last.op = "close" /\ last.afterClose
    /\ last.result = "SharedObjectClosed"
    /\ closeOk = 1 /\ handlerCalls = 1

\* C3: once the closed flag is true it stays true and the slot does not become
\* Filled again.
C3_ClosedIsTerminal ==
    [][closed => (closed' /\ (obj' # obj => ~is_optional_value(obj')))]_vars

\* C4 as stated: a get issued on an empty open cell returns only after a set(v)
\* has completed, and returns v when one set(v) and nothing else happened
\* since it was issued.
C4_GetWaitsForSet ==
    (last.op = "get" /\ last.track.on /\ last.result = "ok")
        => /\ last.track.set
           /\ last.track.sole # INVALID_VALUE => last.retval = last.track.sole

\* C4 as amended: a get issued on an empty open cell returns only after a
\* value has been written, by a set(v) or by a handler's accessor set under
\* execute_under_lock, and returns v when one set(v) and nothing else happened
\* since it was issued.
C4_GetWaitsForWrite ==
    (last.op = "get" /\ last.track.on /\ last.result = "ok")
        => /\ last.track.set \/ last.track.raw
           /\ last.track.sole # INVALID_VALUE => last.retval = last.track.sole

C4_Witness ==
    /\ last.op = "get" /\ last.track.on /\ last.result = "ok"
    /\ last.track.sole # INVALID_VALUE
    /\ last.retval = last.track.sole

\* C5: a task inside a guarded critical section holds the lock, so at most one
\* task is inside one.
C5_MutualExclusion == \A t \in Tasks : pc[t] = "handler" => holder = {t}

\* C6: the valid values replaced in the slot are exactly the values submitted
\* to the Cleanup Queue, each once.
C6_DisplacedSubmittedOnce == cleaned = displaced

\* C7: every change of the slot or of the closed flag wakes every task
\* suspended in get: after it none is left waiting on the condition.
C7_ChangeWakesGetters ==
    [][((obj' # obj \/ closed' # closed) /\ \E t \in Tasks : pc[t] = "condwait")
          => \A t \in Tasks : pc'[t] # "condwait"]_vars

\* C8: a task that is not inside a guarded operation (its call has ended, by
\* return, exception or cancellation) does not hold the lock.
C8_NoLockAfterExit == 0 \notin holder /\ \A t \in Tasks : pc[t] = "idle" => t \notin holder

C8_Witness ==
    /\ last.op = "async" /\ last.entered
    /\ last.raised = "CancelledError"
    /\ ~locked

\* C9: a call whose lock acquisition times out fails with LockTimeout, has not
\* entered its body, and leaves the slot and the closed flag as they were.
C9_TimeoutRunsNoBody ==
    [][last'.raised = "TimeoutError"
          => /\ last'.result = "LockTimeout"
             /\ ~last'.entered
             /\ obj' = obj /\ closed' = closed]_vars

C9_Witness == last.raised = "TimeoutError" /\ last.result = "LockTimeout" /\ ~last.entered

\* C10: a handler timeout is reported as HandlerTimeout and a lock timeout as
\* LockTimeout, never as each other.
C10_TimeoutsDistinct ==
    /\ last.raised = "HandlerTimeout" => last.result = "HandlerTimeout"
    /\ last.raised = "TimeoutError" => last.result = "LockTimeout"

\* C11: a close() made while no set or clear has completed (no call at all
\* has ended) and the lock is free does not wait indefinitely before it asks
\* for the lock: the closes that wait for the event all get past it.
C11_CloseNeedsNoSet ==
    (ended = 0 /\ ~updated /\ ~locked /\ \E t \in Tasks : pc[t] = "closewait")
        ~> (\A t \in Tasks : pc[t] # "closewait")

\* C12: whenever the close handler is invoked the cell is already Closed and
\* the task running close() does not hold the lock: a close() that awaits its
\* handler, and one that has returned after calling it, find the closed flag
\* set and are not the lock's holder.
C12_HandlerAfterTransition ==
    /\ handlerCalls > 0 => closed
    /\ \A t \in Tasks : pc[t] = "closehandler" => (closed /\ t \notin holder)
    /\ (last.op = "close" /\ last.result = "ok") => (closed /\ 0 \notin holder)

C12_Witness ==
    /\ \E t \in Tasks : pc[t] = "closehandler" /\ op[t] = "close"
    /\ handlerCalls = 1
    /\ closed
    /\ ~locked

\* C13: a close() that makes the transition to Closed on a cell that holds a
\* value, and returns, gives back the value the slot held at the transition.
C13_CloseReturnsLastValue ==
    [][(last'.op = "close" /\ last'.result = "ok" /\ closeOk' # closeOk
            /\ is_valid_value(obj))
          => last'.retval = obj]_vars

\* The step in which the guarded body of a call of o runs to its end: the
\* call returns in that step, or it is left awaiting the cleanup handler or
\* the close handler.
Awaiting(p) == Cardinality({t \in Tasks : p[t] \in {"cleanup", "closehandler"}})

TakesEffect(o) ==
    \/ /\ last'.op = o /\ last'.result = "ok"
       /\ Awaiting(pc') = Awaiting(pc)
    \/ /\ last' = NoCall
       /\ \E t \in Tasks : /\ pc'[t] \in {"cleanup", "closehandler"}
                            /\ pc[t] \notin {"cleanup", "closehandler"}
                            /\ op'[t] = o

\* C14: for set(a) followed by set(b), the cleanup handler receives a exactly
\* once and before a get started after set(b) can return b: the step in which
\* a set replaces a value a hands a to the cleanup handler, once, and no
\* other step hands it anything but the value a set or clear replaces in it.
C14_DisplacedByNextSet ==
    [][/\ (TakesEffect("set") /\ is_valid_value(obj))
             => cleaned' = cleaned (+) SetToBag({obj})
       /\ cleaned' # cleaned
             => /\ TakesEffect("set") \/ TakesEffect("clear")
                /\ is_valid_value(obj)
                /\ cleaned' = cleaned (+) SetToBag({obj})]_vars

C14_Witness ==
    /\ last.op = "set" /\ last.result = "ok"
    /\ cleaned = SetToBag({1})
    /\ obj = NONE
    /\ \A t \in Tasks : pc[t] = "idle"

\* C15: a get returns only a value the slot holds when the get has the lock:
\* never the empty marker, never a value that has been replaced since.
C15_GetReturnsCurrentValue ==
    (last.op = "get" /\ last.result = "ok")
        => (last.retval = obj /\ last.retval # INVALID_VALUE)

\* A get issued on the empty cell was woken by a set, found the slot emptied
\* again by a clear that ran first, and waits on the condition once more.
C15_Witness ==
    /\ pc[1] = "condwait" /\ op[1] = "get"
    /\ track[1].set /\ ~track[1].raw
    /\ obj = INVALID_VALUE /\ ~closed
    /\ ended = 2 /\ pc[2] = "idle"
    /\ last = NoCall

\* C16: a clear() on an open cell leaves the slot holding the configured
\* default if there is one and the empty marker otherwise (the default is the
\* empty marker when none was configured).
C16_ClearLeavesDefault ==
    [][TakesEffect("clear") => obj' = default]_vars

C16_Witness ==
    /\ last.op = "clear" /\ last.result = "ok"
    /\ default = 1 /\ obj = 1
    /\ displaced = SetToBag({1})
    /\ ended = 2

\* C17: a close() whose task is cancelled after the transition to Closed has
\* begun still runs its close handler to completion: no close() that has made
\* the transition ends with CancelledError raised out of the handler it awaits.
C17_CancelledCloseCompletes ==
    (last.op = "close" /\ last.entered) => last.raised # "CancelledError"

\* C18: the cleanup handler for a value displaced by set or clear runs only
\* after the lock has been released: a task awaiting the handler is not the
\* lock's holder, nor is one that has returned from set or clear.  (That other
\* tasks' calls complete meanwhile is the witness.)
C18_CleanupOutsideLock ==
    /\ \A t \in Tasks : pc[t] = "cleanup" => t \notin holder
    /\ (last.op \in {"set", "clear"} /\ last.result = "ok") => 0 \notin holder

\* While task 1 awaits the cleanup handler another task's set, get or clear
\* has run and returned.
C18_Witness ==
    /\ pc[1] = "cleanup"
    /\ last.op \in {"set", "get", "clear"} /\ last.result = "ok" /\ last.entered
    /\ ~locked

\* C19: execute_under_lock holds the lock for the whole run of the handler,
\* also while its asynchronous result is awaited: while a handler is in
\* progress no other task's set, clear, get, peek or close runs its body.
C19_HandlerRunsAlone ==
    [][(\E t \in Tasks : pc[t] = "handler")
          => \A o \in {"set", "clear", "get", "peek", "close"} : ~TakesEffect(o)]_vars

\* The calls whose handler is in progress.
InHandler(p) == Cardinality({t \in Tasks : p[t] = "handler"})

\* C20: execute_under_lock on a Closed cell fails with SharedObjectClosed
\* without invoking the handler and without changing the slot: on a closed
\* cell no handler is started, and a call that gets the lock there ends with
\* SharedObjectClosed, the slot and the closed flag being what they were.
C20_ClosedRejectsHandler ==
    [][closed =>
          /\ InHandler(pc') <= InHandler(pc)
          /\ (last'.op \in {"do", "async"} /\ last'.entered
                  /\ InHandler(pc') = InHandler(pc))
                => /\ last'.result = "SharedObjectClosed"
                   /\ obj' = obj /\ closed' = closed
                   /\ displaced' = displaced]_vars

C20_Witness ==
    /\ last.op = "async" /\ last.entered
    /\ last.result = "SharedObjectClosed"
    /\ closed /\ closeOk = 1
    /\ ~locked

\* C21: when the cleanup handler raises, from its call or from its awaited
\* result, the set or clear that submitted the value completes normally: no
\* exception reaches its caller, and the set has put its value in the slot.
C21_CleanupErrorContained ==
    [][last'.raised = "CleanupError"
          => /\ last'.op \in {"set", "clear"}
             /\ last'.result = "ok"
             /\ TakesEffect("clear") => obj' = default
             /\ TakesEffect("set") => obj' \in SetArgs]_vars

\* A set whose synchronous cleanup handler raised has returned normally, its
\* value in the slot and the replaced value handed to the handler.
C21_Witness ==
    /\ last.op = "set" /\ last.raised = "CleanupError" /\ last.result = "ok"
    /\ obj = NONE
    /\ cleaned = SetToBag({1})
    /\ ended = 1

\* The operations that fail on a closed cell.
FailWhenClosed == {"get", "set", "clear", "close", "do", "async"}

C29_ReadsChangeNothing ==
    [][/\ \A t \in Tasks :
             pc'[t] \in {"condwait", "relock", "relock_cancelled", "cleanup"}
                => op'[t] # "peek"
       /\ last'.op \in Reads
             => /\ obj' = obj /\ closed' = closed
                /\ cleaned' = cleaned /\ displaced' = displaced
                /\ (last'.result = "ok" /\ last'.op = "peek") => last'.retval = obj
                /\ (last'.result = "ok" /\ last'.op = "closed") => last'.retval = closed
                /\ (last'.result = "ok" /\ last'.op = "valid")
                      => last'.retval = (obj \notin {NONE, INVALID_VALUE})]_vars

\* A peek on the empty open cell has returned the empty marker.
C29_Witness ==
    /\ last.op = "peek" /\ last.result = "ok"
    /\ last.retval = INVALID_VALUE
    /\ obj = INVALID_VALUE /\ ~closed

\* C30: whenever the closed flag is true and no critical section is in
\* progress the slot holds no value, however the cell was closed; so a get
\* on a closed cell does not return a value.
C30_ClosedHoldsNoValue ==
    /\ (closed /\ ~locked /\ \A t \in Tasks : pc[t] # "handler") => obj = INVALID_VALUE
    /\ (last.op = "get" /\ last.result = "ok") => ~closed

\* C23: under the inline policy, an asynchronous cleanup operation that
\* exceeded its timeout with resumes true is in pending, unfinished and still
\* able to finish, when cleanup returns.
C23_ResumedOperationIsPending ==
    (queue.last.op = "cleanup" /\ queue.last.timedout /\ queue.last.resumes)
        => /\ queue.last.entry \in queue.pending
           /\ queue.coro[queue.last.entry] = "running"

\* C24: when wait_all has returned, whichever way it went (every entry
\* finished, all_timeout expired, an unexpected error), pending is empty, and
\* every entry that was unfinished at the expiry of all_timeout is cancelled.
C24_WaitAllLeavesNothingPending ==
    queue.last.op = "wait_all"
        => /\ queue.pending = {}
           /\ \A i \in queue.last.unfinished : queue.task[i] = "cancelled"

\* C25: wait_all returns normally when cleanup operations it waited for have
\* failed: their exceptions are collected, none reaches the caller.
C25_WaitAllCollectsFailures ==
    (queue.last.op = "wait_all" /\ queue.last.failed) => queue.last.result = "ok"

C25_Witness ==
    /\ queue.last.op = "wait_all"
    /\ queue.last.failed
    /\ queue.last.path = "finished"
    /\ queue.last.result = "ok"

\* C26: a call of cleanup under the detached policy returns without waiting;
\* when the handler's result is asynchronous the operation is then in pending
\* and still running; when it is not, nothing is added to pending, whatever the
\* policy.
C26_DetachedAsyncIsPending ==
    [][/\ (queue'.last.op = "cleanup" /\ queue'.last.detached)
            => /\ queue'.last.phase = "returned"
               /\ queue'.inline = queue.inline
               /\ queue'.last.kind = "async"
                     => /\ queue'.last.entry \notin queue.pending
                        /\ queue'.last.entry \in queue'.pending
                        /\ queue'.task[queue'.last.entry] = "running"
                        /\ queue'.coro[queue'.last.entry] = "running"
       /\ (queue'.last.op = "cleanup" /\ queue'.last.kind # "async")
            => /\ queue'.pending \subseteq queue.pending
               /\ queue'.task = queue.task
               /\ queue'.last.phase = "returned"]_vars

C26_Witness ==
    /\ queue.last.op = "cleanup"
    /\ queue.last.detached
    /\ queue.last.kind = "async"
    /\ queue.last.phase = "returned"
    /\ queue.last.entry \in queue.pending
    /\ queue.inline # 0

\* A step that is a call of cleanup (and not the end of an inline await).
Submits ==
    /\ queue'.last.op = "cleanup"
    /\ ~(queue.inline # 0 /\ queue'.inline = 0)

\* C27: every call of cleanup counts; the call at which the count reaches the
\* interval removes the finished entries from pending and starts the count
\* again at 0; no unfinished entry is ever removed by it; and after every call
\* 0 <= count < interval.
C27_CounterBelowInterval ==
    [][Submits =>
        /\ queue'.clear_count =
              IF queue.clear_count + 1 >= queue.cleanup_interval
              THEN 0 ELSE queue.clear_count + 1
        /\ queue.clear_count + 1 >= queue.cleanup_interval
              => \A i \in queue.pending : queue.task[i] # "running" => i \notin queue'.pending
        /\ \A i \in queue.pending : queue.task[i] = "running" => i \in queue'.pending
        /\ 0 <= queue'.clear_count
        /\ queue'.clear_count < queue'.cleanup_interval]_vars

\* C28: the guard changes the two events only at the exit of a body that ran
\* to its end, where it sets the completed event and clears the waiting event
\* (each when it was given); entering, acquiring, LockTimeout and an exception
\* of the body leave both as they were.
C28_SignalsOnlyOnCompletion ==
    [][/\ guard'.last.outcome # "done"
            => /\ guard'.completed = guard.completed
               /\ guard'.waiting = guard.waiting
       /\ guard'.last.outcome = "done"
            => /\ guard'.completed = (guard.completed \/ guard'.last.given.set)
               /\ guard'.waiting = (guard.waiting /\ ~guard'.last.given.clear)]_vars

C28_Witness ==
    /\ guard.last.outcome = "done"
    /\ guard.last.given.set
    /\ guard.last.given.clear
    /\ ~guard.last.was.completed
    /\ guard.last.was.waiting
    /\ guard.completed
    /\ ~guard.waiting

SuspendedGetsAreWoken ==
    /\ [][\A t \in Tasks : (closeOk' > closeOk) => pc'[t] # "condwait"]_vars
    /\ (closeOk > 0 /\ \E t \in Tasks : pc[t] = "relock")
          ~> (\A t \in Tasks : pc[t] # "relock")

\* C32: a set, clear or close call that fails with LockTimeout or with
\* SharedObjectClosed leaves the slot, the closed flag, the updated event and
\* what was passed to the Cleanup Queue as they were.
C32_FailedCallChangesNothing ==
    [][(last'.op \in {"set", "clear", "close"}
            /\ last'.result \in {"LockTimeout", "SharedObjectClosed"})
          => /\ obj' = obj
             /\ closed' = closed
             /\ updated' = updated
             /\ cleaned' = cleaned]_vars

\* __aexit__: await asyncio.shield(self.close()).  The block is being left and
\* the close() of the exit is the only call in progress.
Exiting ==
    /\ ended = 0
    /\ ~locked
    /\ \E t \in Tasks : pc[t] = "closewait"
    /\ \A t \in Tasks : pc[t] \in {"idle", "closewait"}

\* C33: leaving the `async with` block closes the cell, the close handler
\* having been invoked once: the close() of the exit, unless it is itself
\* ended from outside, makes the transition.
C33_ExitClosesCell ==
    Exiting ~> \/ closed /\ handlerCalls <= 1
               \/ last.op = "close" /\ last.raised \in {"CancelledError", "TimeoutError"}

\* C34: a task suspended in get on the condition does not hold the lock, and
\* in no reachable state are the calls in progress all blocked while the open
\* cell holds a value; here, for calls that are all gets suspended on the
\* condition.
C34_NoBlockWhileFilled ==
    /\ \A t \in Tasks : pc[t] = "condwait" => t \notin holder
    /\ ~(/\ is_valid_value(obj)
         /\ ~closed
         /\ \E t \in Tasks : pc[t] = "condwait"
         /\ \A t \in Tasks : pc[t] \in {"idle", "condwait"})

\* C35: when one set(v) and nothing else has happened since gets were issued
\* on the empty cell, none of those gets is still suspended on the condition,
\* the slot holds v for them, and each of them that ends, unless it is
\* cancelled or timed out, returns v.
C35_EveryWokenGetReturnsValue ==
    /\ (last.op = "get" /\ last.track.on /\ last.track.sole # INVALID_VALUE
            /\ last.raised = "none")
          => (last.result = "ok" /\ last.retval = last.track.sole)
    /\ \A t \in Tasks :
          (op[t] = "get" /\ track[t].on /\ track[t].sole # INVALID_VALUE)
            => /\ pc[t] \in {"lockwait", "relock", "relock_cancelled"}
               /\ obj = track[t].sole

\* Two gets were suspended when set(v) completed: one has returned v, the
\* other is awake and about to.
C35_Witness ==
    /\ last.op = "get" /\ last.track.on /\ last.result = "ok"
    /\ is_valid_value(last.retval)
    /\ last.retval = last.track.sole
    /\ \E t \in Tasks : /\ pc[t] = "relock" /\ op[t] = "get"
                        /\ track[t].on /\ track[t].sole = last.retval

OnCondition(p) == Cardinality({t \in Tasks : p[t] = "condwait"})

\* C36: the value that a set or clear replaces is submitted for cleanup when
\* it is a valid value and only then: replacing None or the empty marker
\* submits nothing; and while the slot holds None no get suspends, a get that
\* returns then returns None.
C36_NoneIsAValueButNotCleaned ==
    [][/\ (TakesEffect("set") \/ TakesEffect("clear"))
            => cleaned' = IF obj \in Vals THEN cleaned (+) SetToBag({obj}) ELSE cleaned
       /\ obj = NONE
            => /\ OnCondition(pc') <= OnCondition(pc)
               /\ (last'.op = "get" /\ last'.raised = "none")
                     => (last'.result = "ok" /\ last'.retval = NONE)]_vars

\* After set(None) a get has returned None; nothing was submitted.
C36_Witness ==
    /\ last.op = "get" /\ last.result = "ok" /\ last.retval = NONE
    /\ ~last.track.on
    /\ obj = NONE
    /\ cleaned = EmptyBag
    /\ updated

\* C37: under the inline policy, when the awaited cleanup result exceeds its
\* timeout and resumes is false, nothing is added to pending, no task is made,
\* and cleanup returns normally.
C37_AbandonedOnTimeout ==
    [][(queue'.last.op = "cleanup" /\ queue'.last.timedout /\ ~queue'.last.resumes)
          => /\ queue'.pending = queue.pending
             /\ queue'.task = queue.task
             /\ queue'.last.phase = "returned"
             /\ queue'.last.result = "ok"]_vars

C37_Witness ==
    /\ queue.last.op = "cleanup"
    /\ queue.last.timedout
    /\ ~queue.last.resumes
    /\ queue.last.result = "ok"
    /\ queue.last.entry \notin queue.pending
    /\ queue.coro[queue.last.entry] = "cancelled"
    /\ queue.task[queue.last.entry] = "none"

\* C38 as stated: a call of cleanup with no handler registered leaves pending
\* as it was, makes no task and no coroutine, and returns normally.
C38_NoHandlerLeavesPending ==
    [][(Submits /\ queue'.last.kind = "none")
          => /\ queue'.pending = queue.pending
             /\ queue'.task = queue.task
             /\ queue'.coro = queue.coro
             /\ queue'.last.phase = "returned"
             /\ queue'.last.result = "ok"]_vars

\* C38 as amended: such a call adds nothing to pending; what it removes, as
\* every call of cleanup does at the interval, are finished entries only.
C38_NoHandlerAddsNothing ==
    [][(Submits /\ queue'.last.kind = "none")
          => /\ queue'.pending \subseteq queue.pending
             /\ \A i \in queue.pending \ queue'.pending : queue.task[i] # "running"
             /\ queue'.task = queue.task
             /\ queue'.coro = queue.coro
             /\ queue'.last.phase = "returned"
             /\ queue'.last.result = "ok"]_vars

\* A call with no handler has returned; an unfinished entry is still pending
\* and a finished one is not.
C38_Witness ==
    /\ queue.last.op = "cleanup"
    /\ queue.last.kind = "none"
    /\ queue.last.result = "ok"
    /\ queue.clear_count = 0
    /\ \E i \in Entries : queue.task[i] = "running" /\ i \in queue.pending
    /\ \E i \in Entries : queue.task[i] \in {"done", "failed"} /\ i \notin queue.pending

\* C39: while wait_all waits, the expiry of per_task_timeout cancels the one
\* entry it is about; the other entries stay as they are and are still waited
\* for; wait_all returns on its finished path only when every entry it waits
\* for has ended, and returns normally.
C39_PerTaskTimeoutCancelsOne ==
    [][/\ (queue.in_wait_all /\ queue'.in_wait_all
               /\ \E i \in queue.gathered :
                     queue.task[i] = "running" /\ queue'.task[i] = "cancelled")
            => /\ Cardinality({i \in Entries : queue'.task[i] # queue.task[i]}) = 1
               /\ queue'.gathered = queue.gathered
               /\ queue'.pending = queue.pending
       /\ (queue.in_wait_all /\ queue'.last.op = "wait_all")
            => /\ queue'.last.result = "ok"
               /\ queue'.last.path = "finished"
                     => \A i \in queue.gathered : queue.task[i] # "running"]_vars

\* One of the entries waited for has been cancelled by its own timeout, and
\* another is still running and waited for.
C39_Witness ==
    /\ queue.in_wait_all
    /\ \E i \in queue.gathered : queue.task[i] = "cancelled"
    /\ \E i \in queue.gathered : queue.task[i] = "running"

\* C40: an iteration yields elements of the set as it was when the iteration
\* took its copy, and when it ends it has yielded exactly those and has not
\* failed, whatever add, discard and clear did to the set meanwhile.
C40_IterationYieldsSnapshot ==
    /\ \A i \in Iterators :
          sset.it[i].pc = "iterating" => sset.it[i].yielded \subseteq sset.it[i].start
    /\ sset.last.op = "iterated"
          => /\ ~sset.last.failed
             /\ sset.last.yielded = sset.last.start

\* An iteration over both elements has ended although the set was changed
\* during it, and the set is now another one.
C40_Witness ==
    /\ sset.last.op = "iterated"
    /\ sset.last.disturbed
    /\ sset.last.start = Elements
    /\ sset.last.yielded = Elements
    /\ sset.items # Elements

====
